---------------------------- MODULE Spec2Model ----------------------------
(***************************************************************************)
(* Model of src/src/App.js, the "Newsroom Photo Stylizer": a React         *)
(* component holding a composition configuration and an uploaded image,    *)
(* and a draw routine that repaints a canvas from them after every state   *)
(* change.                                                                 *)
(*                                                                         *)
(* Numbers.  JavaScript numbers are modelled as exact rationals            *)
(* [n |-> numerator, d |-> denominator > 0] in lowest terms, so that the   *)
(* percent and aspect-ratio arithmetic of draw is computed, not            *)
(* approximated.  Floating-point rounding is not modelled.                 *)
(***************************************************************************)
EXTENDS Integers, Sequences, FiniteSets

VARIABLES
    devicePixelRatio, \* window.devicePixelRatio (environment), or Undefined
    mounted,          \* the component has been mounted, canvasRef.current is set
    bg, size, direction, repeats, gapPct, stepScale, yOffsetPct,
    anchor, padding, baseScalePct,      \* useState, lines 38-47
    imgURL,           \* useState line 48: 0 is null, k is the object URL of upload k
    imgObj,           \* useState line 49: 0 is null, k is the Image made by upload k
    dpiScale,         \* useState line 50
    images,           \* the Image objects made by onFile, in creation order
    revoked,          \* object URLs passed to URL.revokeObjectURL
    surface           \* the canvas element: backing store and what was painted

vars == <<devicePixelRatio, mounted, bg, size, direction, repeats, gapPct,
          stepScale, yOffsetPct, anchor, padding, baseScalePct, imgURL,
          imgObj, dpiScale, images, revoked, surface>>

---------------------------------------------------------------------------
(* Exact rational arithmetic standing for the JavaScript number operations *)

Abs(k) == IF k < 0 THEN -k ELSE k

RECURSIVE GCD(_, _)
GCD(a, b) == IF b = 0 THEN a ELSE GCD(b, a % b)

Norm(n, d) ==
    LET g == GCD(Abs(n), d)
    IN  [n |-> n \div g, d |-> d \div g]

RInt(k) == [n |-> k, d |-> 1]

RNeg(a) == [n |-> -a.n, d |-> a.d]

RAdd(a, b) ==
    LET g == GCD(a.d, b.d)
        l == (a.d \div g) * b.d
    IN  Norm(a.n * (l \div a.d) + b.n * (l \div b.d), l)

RSub(a, b) == RAdd(a, RNeg(b))

RMul(a, b) ==
    LET g1 == GCD(Abs(a.n), b.d)
        g2 == GCD(Abs(b.n), a.d)
    IN  Norm((a.n \div g1) * (b.n \div g2), (a.d \div g2) * (b.d \div g1))

RInv(a) == IF a.n > 0 THEN [n |-> a.d, d |-> a.n] ELSE [n |-> -a.d, d |-> -a.n]

RDiv(a, b) == RMul(a, RInv(b))

RLe(a, b) == a.n * b.d <= b.n * a.d

RMin(a, b) == IF RLe(a, b) THEN a ELSE b

RMax(a, b) == IF RLe(a, b) THEN b ELSE a

RECURSIVE RPow(_, _)
RPow(a, i) == IF i = 0 THEN RInt(1) ELSE RMul(a, RPow(a, i - 1))

\* the integer part of a number, as the conversion to a canvas dimension takes it
Trunc(a) == IF a.n >= 0 THEN a.n \div a.d ELSE -((-a.n) \div a.d)

IMin(a, b) == IF a <= b THEN a ELSE b

IMax(a, b) == IF a >= b THEN a ELSE b

---------------------------------------------------------------------------
(* Module constants of App.js *)

PALETTE == <<
    [name |-> "News Green", value |-> "#6BFF7A"],
    [name |-> "Lavender",   value |-> "#C9B8FF"],
    [name |-> "Fuchsia",    value |-> "#FF27B1"],
    [name |-> "Olive",      value |-> "#6A5B17"],
    [name |-> "Black",      value |-> "#000000"],
    [name |-> "White",      value |-> "#FFFFFF"] >>

\* (the labels' multiplication sign is written x)
SIZES == <<
    [label |-> "1200 x 675 (16:9)",    w |-> 1200, h |-> 675],
    [label |-> "1920 x 1080 (HD)",     w |-> 1920, h |-> 1080],
    [label |-> "1200 x 1200 (Square)", w |-> 1200, h |-> 1200],
    [label |-> "1600 x 900 (16:9)",    w |-> 1600, h |-> 900] >>

\* an anchor key is the sequence of its characters: "tl" is <<"t", "l">>
ANCHORS == <<
    [label |-> "Top Left",     key |-> <<"t", "l">>],
    [label |-> "Top Right",    key |-> <<"t", "r">>],
    [label |-> "Bottom Left",  key |-> <<"b", "l">>],
    [label |-> "Bottom Right", key |-> <<"b", "r">>],
    [label |-> "Center",       key |-> <<"c">>] >>

\* String.prototype.includes for a one-character needle
Includes(str, ch) == \E k \in 1..Len(str) : str[k] = ch

\* window.devicePixelRatio is a record [defined, n, d]: undefined, or the number n/d
Undefined == [defined |-> FALSE, n |-> 0, d |-> 1]

Num(n, d) == [defined |-> TRUE, n |-> n, d |-> d]

\* canvasRef.current before the canvas element exists (null)
NoCanvas ==
    [attached |-> FALSE, width |-> 0, height |-> 0, transform |-> RInt(1),
     fillStyle |-> "#000000", ops |-> <<>>]

\* a canvas element as created: 300 x 150, identity transform, nothing painted
BlankCanvas ==
    [attached |-> TRUE, width |-> 300, height |-> 150, transform |-> RInt(1),
     fillStyle |-> "#000000", ops |-> <<>>]

\* e.target.files?.[0] when no file was chosen (undefined)
NoFile == [w |-> 0, h |-> 0]

---------------------------------------------------------------------------
(* The draw routine, lines 80-163.  s is the state the closure reads:      *)
(* the configuration, dpiScale, imgObj and, as img, the natural size of    *)
(* the Image object imgObj refers to.                                      *)

\* const { w, h } = size; Math.min(w, h)                          (line 104)
Shortest(s) == IMin(s.size.w, s.size.h)

\* (baseScalePct / 100) * shortest                                (line 105)
BaseTarget(s) == RMul(Norm(s.baseScalePct, 100), RInt(Shortest(s)))

\* imgObj.width / imgObj.height                                   (line 107)
ImgRatio(s) == RDiv(RInt(s.img.width), RInt(s.img.height))

\* lines 108-127: the base rectangle (landscape sets the height, portrait
\* the width) and its starting position from the anchor
Layout(s) ==
    LET baseTarget == BaseTarget(s)
        imgRatio == ImgRatio(s)
        drawW == IF RLe(RInt(1), imgRatio)
                 THEN RMul(baseTarget, imgRatio)
                 ELSE baseTarget
        drawH == IF RLe(RInt(1), imgRatio)
                 THEN baseTarget
                 ELSE RDiv(baseTarget, imgRatio)
        startX0 == IF Includes(s.anchor, "r")
                   THEN RSub(RInt(s.size.w - s.padding), drawW)
                   ELSE RInt(s.padding)
        startY0 == IF Includes(s.anchor, "b")
                   THEN RSub(RInt(s.size.h - s.padding), drawH)
                   ELSE RInt(s.padding)
    IN  [drawW |-> drawW, drawH |-> drawH,
         startX |-> IF s.anchor = <<"c">>
                    THEN RDiv(RSub(RInt(s.size.w), drawW), RInt(2))
                    ELSE startX0,
         startY |-> IF s.anchor = <<"c">>
                    THEN RDiv(RSub(RInt(s.size.h), drawH), RInt(2))
                    ELSE startY0]

\* direction === "right" ? 1 : -1                                 (line 130)
Dir(s) == IF s.direction = "right" THEN 1 ELSE -1

\* (gapPct / 100) * drawW                                         (line 131)
GapPx(s, lay) == RMul(Norm(s.gapPct, 100), lay.drawW)

\* (yOffsetPct / 100) * drawH                                     (line 132)
YStepPx(s, lay) == RMul(Norm(s.yOffsetPct, 100), lay.drawH)

\* stepScale / 100                                                (line 133)
ScaleStep(s) == Norm(s.stepScale, 100)

\* Layers without the lower bound: Math.min(6, repeats)
LayersNoFloor(s) == IMin(6, s.repeats)

\* Layers without any bound: repeats as given
LayersUnclamped(s) == s.repeats

\* Math.max(1, Math.min(6, repeats))                              (line 136)
Layers(s) == IMax(1, IMin(6, s.repeats))

\* Math.pow(scaleStep, i)                                         (line 139)
LayerScale(s, i) == RPow(ScaleStep(s), i)

\* LayerOrigin with the offsets counted from 1: layer 0 is already displaced
LayerOriginFromOne(s, lay, i) ==
    [x |-> RAdd(lay.startX, RMul(RInt(Dir(s) * (i + 1)), GapPx(s, lay))),
     y |-> RAdd(lay.startY, RMul(RInt(i + 1), YStepPx(s, lay)))]

\* startX + dir * gapPx * i, startY + yStepPx * i            (lines 145-146)
LayerOrigin(s, lay, i) ==
    [x |-> RAdd(lay.startX, RMul(RInt(Dir(s) * i), GapPx(s, lay))),
     y |-> RAdd(lay.startY, RMul(RInt(i), YStepPx(s, lay)))]

\* Pivot with the top-right branch left out
PivotWithoutTopRight(s, dw, dh) ==
    IF s.anchor = <<"b", "l">> THEN [x |-> RInt(0), y |-> dh]
    ELSE IF s.anchor = <<"b", "r">> THEN [x |-> dw, y |-> dh]
    ELSE IF s.anchor = <<"c">>
         THEN [x |-> RDiv(dw, RInt(2)), y |-> RDiv(dh, RInt(2))]
    ELSE [x |-> RInt(0), y |-> RInt(0)]

\* lines 149-159: what is added to x and y so that a layer scales from the
\* anchor corner; dw is drawW - wI and dh is drawH - hI
Pivot(s, dw, dh) ==
    IF s.anchor = <<"t", "r">> THEN [x |-> dw, y |-> RInt(0)]
    ELSE IF s.anchor = <<"b", "l">> THEN [x |-> RInt(0), y |-> dh]
    ELSE IF s.anchor = <<"b", "r">> THEN [x |-> dw, y |-> dh]
    ELSE IF s.anchor = <<"c">>
         THEN [x |-> RDiv(dw, RInt(2)), y |-> RDiv(dh, RInt(2))]
    ELSE [x |-> RInt(0), y |-> RInt(0)]

\* lines 139-159: the rectangle of layer i, given the layout lay
Layer(s, lay, i) ==
    LET sc == LayerScale(s, i)
        wI == RMul(lay.drawW, sc)
        hI == RMul(lay.drawH, sc)
        at == LayerOrigin(s, lay, i)
        pv == Pivot(s, RSub(lay.drawW, wI), RSub(lay.drawH, hI))
    IN  [x |-> RAdd(at.x, pv.x), y |-> RAdd(at.y, pv.y), w |-> wI, h |-> hI]

\* LoopIndices of a loop running from 0 up to layers - 1
LoopIndicesAscending(layers) == [k \in 1..layers |-> k - 1]

\* for (let i = layers - 1; i >= 0; i--): the k-th iteration's i  (line 138)
LoopIndices(layers) == [k \in 1..layers |-> layers - k]

\* ctx.drawImage(imgObj, x, y, wI, hI) under the current transform (line 161)
DrawImageOp(canvas, s, lay, i) ==
    LET r == Layer(s, lay, i)
    IN  [op |-> "drawImage", src |-> s.imgObj, layer |-> i,
         x |-> r.x, y |-> r.y, w |-> r.w, h |-> r.h, ctm |-> canvas.transform]

\* FillRectOp when fillStyle was never assigned: the context default
FillRectOpDefaultStyle(canvas, s) ==
    [op |-> "fillRect", src |-> "#000000", layer |-> -1,
     x |-> RInt(0), y |-> RInt(0),
     w |-> RInt(s.size.w), h |-> RInt(s.size.h), ctm |-> canvas.transform]

\* ctx.fillRect(0, 0, w, h) with the current fillStyle and transform (line 99)
FillRectOp(canvas, s) ==
    [op |-> "fillRect", src |-> canvas.fillStyle, layer |-> -1,
     x |-> RInt(0), y |-> RInt(0),
     w |-> RInt(s.size.w), h |-> RInt(s.size.h), ctm |-> canvas.transform]

\* canvas.width = ...; canvas.height = ... (lines 88-89).  The dimension
\* attributes are unsigned integers: a fractional number is converted by
\* dropping its fraction.  Assigning either one clears the bitmap and
\* resets the context state (transform, fillStyle).
SetBackingStore(canvas, wv, hv) ==
    [attached |-> canvas.attached,
     width |-> Trunc(wv), height |-> Trunc(hv), transform |-> RInt(1),
     fillStyle |-> "#000000", ops |-> <<>>]

draw(canvas, s) ==
    IF ~canvas.attached THEN canvas                               \* line 82
    ELSE
    LET c1 == SetBackingStore(canvas,
                  RMul(RInt(s.size.w), s.dpiScale),
                  RMul(RInt(s.size.h), s.dpiScale))
        c2 == [c1 EXCEPT !.transform = s.dpiScale]                \* line 95
        c3 == [c2 EXCEPT !.fillStyle = s.bg]                      \* line 98
        c4 == [c3 EXCEPT !.ops = Append(@, FillRectOp(c3, s))]    \* line 99
        idx == LoopIndices(Layers(s))
        lay == Layout(s)
    IN  IF s.imgObj = 0 THEN c4                                   \* line 101
        ELSE [c4 EXCEPT !.ops =
                 @ \o [k \in 1..Len(idx) |-> DrawImageOp(c4, s, lay, idx[k])]]

---------------------------------------------------------------------------
(* The component: state, effects and handlers *)

\* the natural size of an Image object: known once it has loaded
NaturalSize(img) ==
    IF img.status = "loaded"
    THEN [width |-> img.file.w, height |-> img.file.h]
    ELSE [width |-> 0, height |-> 0]

\* what the draw closure of the current render reads
Closure ==
    [bg |-> bg, size |-> size, direction |-> direction, repeats |-> repeats,
     gapPct |-> gapPct, stepScale |-> stepScale, yOffsetPct |-> yOffsetPct,
     anchor |-> anchor, padding |-> padding, baseScalePct |-> baseScalePct,
     imgObj |-> imgObj, dpiScale |-> dpiScale,
     img |-> IF imgObj = 0 THEN [width |-> 0, height |-> 0]
             ELSE NaturalSize(images[imgObj])]

\* RedrawDeps with padding left out of the list
RedrawDepsWithoutPadding ==
    <<bg, size, direction, repeats, gapPct, stepScale, yOffsetPct, anchor,
      baseScalePct, imgObj, dpiScale>>

\* the dependency list of the redraw effect                       (line 169)
RedrawDeps ==
    <<bg, size, direction, repeats, gapPct, stepScale, yOffsetPct, anchor,
      padding, baseScalePct, imgObj, dpiScale>>

\* useEffect(() => { draw(); }, [...]) after a state change: the effect runs
\* when a dependency changed                                  (lines 166-169)
Redraw ==
    surface' = IF RedrawDeps' # RedrawDeps
               THEN draw(surface, Closure')
               ELSE surface

\* Ratio without the upper bound: Math.max(1, devicePixelRatio || 1)
RatioNoCeiling(dpr) ==
    LET v == IF ~dpr.defined \/ dpr.n = 0 THEN RInt(1)
             ELSE [n |-> dpr.n, d |-> dpr.d]
    IN  RMax(RInt(1), v)

\* Math.max(1, Math.min(2, window.devicePixelRatio || 1))          (line 54)
Ratio(dpr) ==
    LET v == IF ~dpr.defined \/ dpr.n = 0 THEN RInt(1)
             ELSE [n |-> dpr.n, d |-> dpr.d]
    IN  RMax(RInt(1), RMin(RInt(2), v))

\* the state after the useState initialisers, before the first commit
InitialState ==
    /\ bg = PALETTE[1].value
    /\ size = SIZES[1]
    /\ direction = "right"
    /\ repeats = 3
    /\ gapPct = -18
    /\ stepScale = 90
    /\ yOffsetPct = 0
    /\ anchor = <<"b", "r">>
    /\ padding = 24
    /\ baseScalePct = 70
    /\ imgURL = 0
    /\ imgObj = 0
    /\ dpiScale = RInt(1)

\* values window.devicePixelRatio takes: undefined, 0.5, 1.5, 3
DevicePixelRatios == {Undefined, Num(1, 2), Num(3, 2), Num(3, 1)}

Init ==
    /\ InitialState
    /\ devicePixelRatio \in DevicePixelRatios
    /\ mounted = FALSE
    /\ images = <<>>
    /\ revoked = {}
    /\ surface = NoCanvas

configVars ==
    <<bg, size, direction, repeats, gapPct, stepScale, yOffsetPct, anchor,
      padding, baseScalePct>>

imageVars == <<imgURL, imgObj, images, revoked>>

\* The first commit.  The canvas element is attached; the two effects run in
\* order: the first schedules dpiScale := ratio (lines 53-56), the second
\* draws with the state of the first render (dpiScale 1); the scheduled
\* update then re-renders and, dpiScale being a dependency, redraws.
Mount ==
    /\ ~mounted
    /\ mounted' = TRUE
    /\ dpiScale' = Ratio(devicePixelRatio)
    /\ UNCHANGED <<devicePixelRatio, configVars, imageVars>>
    /\ LET first == draw(BlankCanvas, Closure)
       IN  surface' = IF dpiScale' # dpiScale
                      THEN draw(first, Closure')
                      ELSE first

\* Bounds of the exploration: how many files are uploaded in a run, and how
\* many configuration fields differ from their initial value at once.
MaxUploads == 2

MaxEdits == 1

\* the number of configuration fields that differ from their initial value
Edits ==
      (IF bg = PALETTE[1].value THEN 0 ELSE 1)
    + (IF size = SIZES[1] THEN 0 ELSE 1)
    + (IF direction = "right" THEN 0 ELSE 1)
    + (IF repeats = 3 THEN 0 ELSE 1)
    + (IF gapPct = -18 THEN 0 ELSE 1)
    + (IF stepScale = 90 THEN 0 ELSE 1)
    + (IF yOffsetPct = 0 THEN 0 ELSE 1)
    + (IF anchor = <<"b", "r">> THEN 0 ELSE 1)
    + (IF padding = 24 THEN 0 ELSE 1)
    + (IF baseScalePct = 70 THEN 0 ELSE 1)

\* a control's change handler has set one configuration field: the rest of
\* the state is kept and the redraw effect runs
Changed(others) ==
    /\ UNCHANGED others
    /\ UNCHANGED <<devicePixelRatio, mounted, dpiScale, imageVars>>
    /\ Edits' <= MaxEdits
    /\ Redraw

\* values the controls deliver (each within the control's min and max)
BgInputs == {1, 2}                                  \* buttons of line 257
SizeInputs == {SIZES[1].label, SIZES[3].label, "none"}          \* line 247
AnchorInputs == {1, 4, 5}                                       \* line 289
RepeatsInputs == {3, 6}                                         \* line 299
PaddingInputs == {24, 200}                                      \* line 303
BaseScaleInputs == {70, 120}                                    \* line 309
GapInputs == {-18, 60}                                          \* line 315
StepScaleInputs == {90, 110}                                    \* line 320
YOffsetInputs == {0, -60}                                       \* line 325

\* onClick={() => setBg(c.value)}                                 (line 261)
SetBg(k) ==
    /\ mounted
    /\ bg' = PALETTE[k].value
    /\ Changed(<<size, direction, repeats, gapPct, stepScale, yOffsetPct,
                 anchor, padding, baseScalePct>>)

\* the size select's onChange: find the preset by label       (lines 242-245)
SetSize(label) ==
    /\ mounted
    /\ LET found == {k \in 1..Len(SIZES) : SIZES[k].label = label}
       IN  size' = IF found = {} THEN size
                   ELSE SIZES[CHOOSE k \in found : \A j \in found : k <= j]
    /\ Changed(<<bg, direction, repeats, gapPct, stepScale, yOffsetPct,
                 anchor, padding, baseScalePct>>)

\* onChange={(e) => setDirection(e.target.value)}                 (line 275)
SetDirection(v) ==
    /\ mounted
    /\ direction' = v
    /\ Changed(<<bg, size, repeats, gapPct, stepScale, yOffsetPct,
                 anchor, padding, baseScalePct>>)

\* onChange={(e) => setAnchor(e.target.value)}                    (line 287)
SetAnchor(k) ==
    /\ mounted
    /\ anchor' = ANCHORS[k].key
    /\ Changed(<<bg, size, direction, repeats, gapPct, stepScale, yOffsetPct,
                 padding, baseScalePct>>)

\* setRepeats(parseInt(e.target.value))                           (line 299)
SetRepeats(v) ==
    /\ mounted
    /\ repeats' = v
    /\ Changed(<<bg, size, direction, gapPct, stepScale, yOffsetPct,
                 anchor, padding, baseScalePct>>)

\* setPadding(parseInt(e.target.value))                           (line 303)
SetPadding(v) ==
    /\ mounted
    /\ padding' = v
    /\ Changed(<<bg, size, direction, repeats, gapPct, stepScale, yOffsetPct,
                 anchor, baseScalePct>>)

\* setBaseScalePct(parseInt(e.target.value))                      (line 309)
SetBaseScalePct(v) ==
    /\ mounted
    /\ baseScalePct' = v
    /\ Changed(<<bg, size, direction, repeats, gapPct, stepScale, yOffsetPct,
                 anchor, padding>>)

\* setGapPct(parseInt(e.target.value))                            (line 315)
SetGapPct(v) ==
    /\ mounted
    /\ gapPct' = v
    /\ Changed(<<bg, size, direction, repeats, stepScale, yOffsetPct,
                 anchor, padding, baseScalePct>>)

\* setStepScale(parseInt(e.target.value))                         (line 320)
SetStepScale(v) ==
    /\ mounted
    /\ stepScale' = v
    /\ Changed(<<bg, size, direction, repeats, gapPct, yOffsetPct,
                 anchor, padding, baseScalePct>>)

\* setYOffsetPct(parseInt(e.target.value))                        (line 325)
SetYOffsetPct(v) ==
    /\ mounted
    /\ yOffsetPct' = v
    /\ Changed(<<bg, size, direction, repeats, gapPct, stepScale,
                 anchor, padding, baseScalePct>>)

\* files a user may choose: their decoded natural sizes
Files == {[w |-> 800, h |-> 600]}

\* onFile, lines 59-77: nothing without a file; otherwise an object URL is
\* made, the updater of setImgURL revokes the previous one, and a new Image
\* starts decoding.  imgObj is not touched, so the redraw effect does not run.
OnFile(file) ==
    /\ mounted
    /\ IF file = NoFile
       THEN UNCHANGED vars
       ELSE /\ Len(images) < MaxUploads
            /\ imgURL' = Len(images) + 1
            /\ revoked' = IF imgURL # 0 THEN revoked \cup {imgURL} ELSE revoked
            /\ images' = Append(images, [file |-> file, status |-> "pending"])
            /\ UNCHANGED <<devicePixelRatio, mounted, dpiScale, configVars, imgObj>>
            /\ Redraw

\* img.onload = () => setImgObj(img)                               (line 67)
ImgOnload(k) ==
    /\ k \in 1..Len(images)
    /\ images[k].status = "pending"
    /\ images' = [images EXCEPT ![k].status = "loaded"]
    /\ imgObj' = k
    /\ UNCHANGED <<devicePixelRatio, mounted, dpiScale, configVars, imgURL, revoked>>
    /\ Redraw

\* ImgOnerror without setImgObj(null)
ImgOnerrorKeepsImage(k) ==
    /\ k \in 1..Len(images)
    /\ images[k].status = "pending"
    /\ images' = [images EXCEPT ![k].status = "failed"]
    /\ imgURL' = 0
    /\ UNCHANGED <<devicePixelRatio, mounted, dpiScale, configVars, revoked, imgObj>>
    /\ Redraw

\* img.onerror: setImgObj(null); setImgURL(null)              (lines 69-73)
ImgOnerror(k) ==
    /\ k \in 1..Len(images)
    /\ images[k].status = "pending"
    /\ images' = [images EXCEPT ![k].status = "failed"]
    /\ imgObj' = 0
    /\ imgURL' = 0
    /\ UNCHANGED <<devicePixelRatio, mounted, dpiScale, configVars, revoked>>
    /\ Redraw

Next ==
    \/ Mount
    \/ \E k \in BgInputs : SetBg(k)
    \/ \E label \in SizeInputs : SetSize(label)
    \/ \E v \in {"right", "left"} : SetDirection(v)
    \/ \E k \in AnchorInputs : SetAnchor(k)
    \/ \E v \in RepeatsInputs : SetRepeats(v)
    \/ \E v \in PaddingInputs : SetPadding(v)
    \/ \E v \in BaseScaleInputs : SetBaseScalePct(v)
    \/ \E v \in GapInputs : SetGapPct(v)
    \/ \E v \in StepScaleInputs : SetStepScale(v)
    \/ \E v \in YOffsetInputs : SetYOffsetPct(v)
    \/ \E file \in Files \cup {NoFile} : OnFile(file)
    \/ \E k \in 1..MaxUploads : ImgOnload(k)
    \/ \E k \in 1..MaxUploads : ImgOnerror(k)

Spec == Init /\ [][Next]_vars

---------------------------------------------------------------------------
(* The draw routine as a function of the configuration.  SpecRender starts *)
(* a component whose state already holds an arbitrary configuration, also  *)
(* values the controls would not deliver, and a decoded image, and lets    *)
(* the first commit render it.                                             *)

RenderSizes == {SIZES[1], SIZES[3]}
RenderRepeats == {0, 3, 6, 9}
RenderGaps == {-18, 70}
RenderStepScales == {50, 90, 100, 110}
RenderYOffsets == {0, -70}
RenderPaddings == {24, -10}
RenderBaseScales == {70, 130}
RenderFiles == {[w |-> 800, h |-> 600], [w |-> 600, h |-> 800],
                [w |-> 500, h |-> 500]}
RenderPixelRatios == {Num(3, 2), Num(3, 1)}

InitRender ==
    /\ devicePixelRatio \in RenderPixelRatios
    /\ mounted = FALSE
    /\ surface = NoCanvas
    /\ dpiScale = RInt(1)
    /\ bg = PALETTE[1].value
    /\ size \in RenderSizes
    /\ direction \in {"right", "left"}
    /\ repeats \in RenderRepeats
    /\ gapPct \in RenderGaps
    /\ stepScale \in RenderStepScales
    /\ yOffsetPct \in RenderYOffsets
    /\ anchor \in {ANCHORS[k].key : k \in 1..Len(ANCHORS)}
    /\ padding \in RenderPaddings
    /\ baseScalePct \in RenderBaseScales
    /\ \E file \in RenderFiles : images = <<[file |-> file, status |-> "loaded"]>>
    /\ imgObj = 1
    /\ imgURL = 1
    /\ revoked = {}

NextRender == Mount

SpecRender == InitRender /\ [][NextRender]_vars

---------------------------------------------------------------------------
(* Properties *)

\* the drawImage calls painted on a canvas, in the order they were issued
ImageOps(canvas) == SelectSeq(canvas.ops, LAMBDA o : o.op = "drawImage")

\* the nearest value to k within [lo, hi]
Nearest(k, lo, hi) == IF k < lo THEN lo ELSE IF k > hi THEN hi ELSE k

\* C1: in a render with an image loaded the layers are drawn in strictly
\* descending index order: the highest index first, each draw of layer i+1
\* before the draw of layer i, index 0 last (topmost), all after the fill.
C1_DescendingOrder ==
    (mounted /\ imgObj # 0) =>
        LET d == ImageOps(surface)
        IN  /\ Len(d) >= 1
            /\ \A k \in 1..Len(d) : d[k].layer = Len(d) - k
            /\ surface.ops[Len(surface.ops)].layer = 0
            /\ surface.ops[1].op = "fillRect"

C1_Witness ==
    /\ mounted
    /\ imgObj # 0
    /\ Len(ImageOps(surface)) = 6
    /\ ImageOps(surface)[1].layer = 5

C4_LayerZeroFixed ==
    (mounted /\ imgObj # 0) =>
        LET d == ImageOps(surface)
            o == d[Len(d)]
            lay == Layout(Closure)
            ref == [Closure EXCEPT !.gapPct = 0, !.yOffsetPct = 0,
                                   !.stepScale = 100]
            r == Layer(ref, Layout(ref), 0)
        IN  /\ o.layer = 0
            /\ o.x = lay.startX /\ o.y = lay.startY
            /\ o.w = lay.drawW /\ o.h = lay.drawH
            /\ o.x = r.x /\ o.y = r.y /\ o.w = r.w /\ o.h = r.h

C4_Witness ==
    /\ mounted
    /\ imgObj # 0
    /\ gapPct = 70 /\ yOffsetPct = -70 /\ stepScale = 50
    /\ anchor = <<"c">>
    /\ Len(ImageOps(surface)) = 3

\* the anchor-side reference point of a drawn rectangle
RefX(o) ==
    IF anchor \in {<<"t", "r">>, <<"b", "r">>} THEN RAdd(o.x, o.w)
    ELSE IF anchor = <<"c">> THEN RAdd(o.x, RDiv(o.w, RInt(2)))
    ELSE o.x

RefY(o) ==
    IF anchor \in {<<"b", "l">>, <<"b", "r">>} THEN RAdd(o.y, o.h)
    ELSE IF anchor = <<"c">> THEN RAdd(o.y, RDiv(o.h, RInt(2)))
    ELSE o.y

\* C9: for every anchor and layer i, the layer's anchor-side reference
\* point is layer 0's displaced by i * (dir * gapPx, yStepPx), whatever the
\* scale step; gapPx and yStepPx are gapPct and yOffsetPct percent of layer
\* 0's width and height.
C9_PivotDisplacement ==
    (mounted /\ imgObj # 0) =>
        LET d == ImageOps(surface)
            o0 == d[Len(d)]
            dirv == IF direction = "right" THEN 1 ELSE -1
            gapStep == RMul(Norm(gapPct, 100), o0.w)
            yStep == RMul(Norm(yOffsetPct, 100), o0.h)
        IN  \A k \in 1..Len(d) :
              /\ RefX(d[k]) = RAdd(RefX(o0), RMul(RInt(dirv * d[k].layer), gapStep))
              /\ RefY(d[k]) = RAdd(RefY(o0), RMul(RInt(d[k].layer), yStep))
              /\ d[k].w = RMul(o0.w, RPow(Norm(stepScale, 100), d[k].layer))
              /\ d[k].h = RMul(o0.h, RPow(Norm(stepScale, 100), d[k].layer))

C9_Witness ==
    /\ mounted
    /\ imgObj # 0
    /\ anchor = <<"b", "r">>
    /\ stepScale = 90 /\ gapPct = -18 /\ yOffsetPct = -70
    /\ direction = "left"
    /\ Len(ImageOps(surface)) = 6

\* the pixel density nearest to the reported ratio within [1, 2]
NearestDensity(dpr) ==
    IF ~dpr.defined \/ dpr.n = 0 THEN RInt(1)
    ELSE IF dpr.n < dpr.d THEN RInt(1)
    ELSE IF dpr.n > 2 * dpr.d THEN RInt(2)
    ELSE [n |-> dpr.n, d |-> dpr.d]

\* the closure with every field replaced by the nearest value of its domain
ClampedAll(s) ==
    [s EXCEPT !.repeats = Nearest(@, 1, 6),
              !.gapPct = Nearest(@, -60, 60),
              !.stepScale = Nearest(@, 60, 110),
              !.yOffsetPct = Nearest(@, -60, 60),
              !.padding = IF @ < 0 THEN 0 ELSE @,
              !.baseScalePct = Nearest(@, 20, 120),
              !.dpiScale = NearestDensity(devicePixelRatio)]

CoversCanvas(canvas, o) ==
    /\ o.op = "fillRect"
    /\ o.x = RInt(0) /\ o.y = RInt(0)
    /\ RLe(RInt(canvas.width), RMul(o.ctm, o.w))
    /\ RLe(RInt(canvas.height), RMul(o.ctm, o.h))

\* C3: with no image loaded the surface holds exactly one paint operation,
\* a fill of the whole canvas with the background colour, and no image draw.
C3_BackgroundOnly ==
    (mounted /\ imgObj = 0) =>
        /\ Len(surface.ops) = 1
        /\ CoversCanvas(surface, surface.ops[1])
        /\ surface.ops[1].src = bg

C3_Witness ==
    /\ mounted
    /\ imgObj = 0
    /\ bg = PALETTE[2].value
    /\ \E k \in 1..Len(images) : images[k].status = "loaded"

\* the images whose decode completed successfully
Decoded == {k \in 1..Len(images) : images[k].status = "loaded"}

Pending == {k \in 1..Len(images) : images[k].status = "pending"}

C6_FullRecompute ==
    mounted =>
        /\ surface = draw(BlankCanvas, Closure)
        /\ draw(surface, Closure) = surface

C6_Witness ==
    /\ mounted
    /\ imgObj = 2
    /\ images[1].status = "loaded"
    /\ padding = 200
    /\ Len(ImageOps(surface)) = 3

C10_NewestUploadWins ==
    [][ ( /\ \E a \in Pending : a < Len(images) /\ images'[a].status # "pending"
          /\ Pending' = {} )
        => LET b == Len(images')
               want == IF images'[b].status = "loaded" THEN b ELSE 0
           IN  /\ imgObj' = want
               /\ \A k \in 1..Len(ImageOps(surface')) :
                      ImageOps(surface')[k].src = want ]_vars

=============================================================================
